---- MODULE Spec2Model ----
(***************************************************************************)
(* shared-notes-api: the note store, the sharing rules and the token      *)
(* cache, as the request handlers of app/api/v1/endpoints act on them.     *)
(*                                                                         *)
(* Every request runs in its own database transaction (READ COMMITTED):    *)
(* each awaited query of a handler is one step that reads the committed    *)
(* tables, and the handler's writes become visible in the single step of   *)
(* its db.commit().  Requests of different slots interleave at the awaits. *)
(***************************************************************************)
EXTENDS Integers, Sequences, FiniteSets, TLC

\* ---------------------------------------------------------------- bounds
NumUsers  == 2      \* registered users 1..NumUsers
MaxNotes  == 1      \* note ids ever handed out
MaxShares == 2      \* note_shares ids ever handed out
MaxTags   == 2      \* tag ids ever handed out
NumSlots  == 2      \* requests in flight at the same time
MaxTime   == 1      \* clock ticks (seconds) the token issuer sees
MaxLen    == 2      \* names in a tag list handed to the resolver alone
MaxNames  == 6      \* usernames a register request may ask for: 1..MaxNames
ListNotes == 2      \* notes in the store the list endpoints read
MaxSkip   == 1      \* `skip` of a list request: 0..MaxSkip
MaxLimit  == 2      \* `limit` of a list request: 1..MaxLimit

Users   == 1..NumUsers
UserIds == 1..(NumUsers + 1)        \* ids a request may name; the last is no user
NoteIds == 1..MaxNotes
Slots   == 1..NumSlots

Null == "null"                      \* Python None / SQL NULL in a text column
NoId == 0                           \* no id: a request that names no note or no user

\* ------------------------------------------------------- request inputs
Titles      == {"t1"}
Contents    == {Null}
Permissions == {"read", "write"}    \* the `permission` a share request may name

\* tag names are strings, modelled as sequences of characters
TagLists ==
    { << >>,
      << <<" ">>, <<"X", " ">> >> }

\* request bodies of update_note: NoteUpdate as note_update.dict(exclude_unset=True)
\* gives it; `fields` are the keys the body carries (a tags value of null is the
\* empty list: `update_data['tags'] or []`)
UpdateBodies ==
    { [fields |-> {},                   title |-> "",   content |-> "",   tags |-> << >>],
      [fields |-> {"title", "content"}, title |-> "t2", content |-> "c2", tags |-> << >>],
      [fields |-> {"tags"},             title |-> "",   content |-> "",   tags |-> << <<"x">> >>],
      [fields |-> {"tags"},             title |-> "",   content |-> "",   tags |-> << >>] }

VARIABLES
    users,      \* users table: id -> username
    notes,      \* notes table: id -> [owner, title, content, tags]
    tags,       \* tags table: id -> name
    shares,     \* note_shares table: id -> [note, user, permission]
    nextNote,   \* notes.id sequence
    nextUser,   \* users.id sequence
    nextTag,    \* tags.id sequence
    nextShare,  \* note_shares.id sequence
    req,        \* slot -> the request it is serving and where the handler stands
    last,       \* the response the step just taken sent, if it sent one
    access,     \* cache: access_token:{user id}
    refresh,    \* cache: refresh_token:{user id}
    now,        \* the issuer's clock, in seconds
    issued      \* the tokens handed out in responses: what clients can present

db    == <<users, notes, tags, shares, nextUser, nextNote, nextTag, nextShare>>
cache == <<access, refresh, now, issued>>
vars  == <<users, notes, tags, shares, nextUser, nextNote, nextTag, nextShare,
           req, last, access, refresh, now, issued>>

Idle == [op |-> "idle"]

\* ----------------------------------------------------------- responses
StatusOf(detail) ==
    CASE detail = "ok"              -> 200
      [] detail = "already"         -> 200
      [] detail = "forbidden"       -> 403
      [] detail = "not_found"       -> 404
      [] detail = "user_not_found"  -> 404
      [] detail = "share_not_found" -> 404
      [] detail = "unauthorized"    -> 401
      [] detail = "inactive"        -> 400
      [] detail = "registered"      -> 400
      [] OTHER                      -> 500

\* a JWT: the `sub` claim, the second it was issued in (which fixes `exp`) and its
\* type; NoToken is an absent cache key
NoToken == [sub |-> NoId, iat |-> 0, typ |-> "none"]

NoResponse == [op |-> "none", user |-> NoId, note |-> NoId, target |-> NoId,
               perm |-> "none", token |-> NoToken, detail |-> "none"]

\* a response, with the request it answers (`perm` is the permission level a share
\* request named, `token` the token a refresh request presented)
Response(op, u, n, t, detail) ==
    [op |-> op, user |-> u, note |-> n, target |-> t, perm |-> "none",
     token |-> NoToken, detail |-> detail]

\* the handler of slot s returns or raises: the response goes out, the slot is free
Respond(s, detail) ==
    /\ last' = [Response(req[s].op, req[s].user, req[s].note, req[s].target, detail)
                  EXCEPT !.perm = IF req[s].op = "share_note"
                                  THEN req[s].perm ELSE "none",
                         !.token = IF req[s].op = "refresh_token"
                                   THEN req[s].token ELSE NoToken]
    /\ req' = [req EXCEPT ![s] = Idle]

\* a request is turned away by the first query of its handler
Reject(s, op, u, n, t, detail) ==
    /\ last' = Response(op, u, n, t, detail)
    /\ UNCHANGED req

\* the handler of slot s goes on to its next await
Goto(s, label) ==
    /\ req' = [req EXCEPT ![s].pc = label]
    /\ last' = NoResponse

At(s, op, label) == req[s].op = op /\ req[s].pc = label

\* ------------------------------------------------------------- queries
\* select(Note).where(Note.id == note_id, Note.owner_id == current_user.id)
OwnedNote(n, u) == n \in DOMAIN notes /\ notes[n].owner = u

\* select(NoteShare).where(note_id == n, user_id == u): the matching row ids
ShareRows(n, u) == {i \in DOMAIN shares : shares[i].note = n /\ shares[i].user = u}

\* the note_shares rows of note n (Note.shared_with)
SharesOfNote(n) == {i \in DOMAIN shares : shares[i].note = n}

Restrict(f, S) == [x \in S |-> f[x]]

\* ------------------------------------------------------- tag resolver
IsSpace(c) == c = " "

\* str.lower(), one character
LowerChar(c) ==
    CASE c = "W" -> "w"
      [] c = "X" -> "x"
      [] OTHER   -> c

Lower(str) == [i \in 1..Len(str) |-> LowerChar(str[i])]

RECURSIVE LStrip(_)
LStrip(str) ==
    IF str # << >> /\ IsSpace(Head(str)) THEN LStrip(Tail(str)) ELSE str

RECURSIVE RStrip(_)
RStrip(str) ==
    IF str # << >> /\ IsSpace(str[Len(str)])
    THEN RStrip(SubSeq(str, 1, Len(str) - 1))
    ELSE str

\* str.strip()
Strip(str) == RStrip(LStrip(str))

\* tag_name.strip().lower()
NormalizeTag(str) == Lower(Strip(str))

NonEmpty(str) == str # << >>

\* the names the loop of get_or_create_tags goes on with, in input order: one entry
\* per input name that is not empty after normalisation (a name met twice is kept
\* twice)
ResolvedNames(tag_names) ==
    SelectSeq([i \in 1..Len(tag_names) |-> NormalizeTag(tag_names[i])], NonEmpty)

Range(seq) == {seq[i] : i \in 1..Len(seq)}

\* the names of the committed tags
TagNames == {tags[t] : t \in DOMAIN tags}

\* select(Tag).where(Tag.name == name): the tag's id (Tag.name is unique)
TagIdOf(table, name) == CHOOSE t \in DOMAIN table : table[t] = name

\* a list holds one entry twice
HasDuplicate(names) ==
    \E i, j \in 1..Len(names) : i < j /\ names[i] = names[j]

\* ------------------------------------------------------------ requests
IsIdle(s) == req[s].op = "idle"

InFlight(op) == Cardinality({s \in Slots : req[s].op = op})

\* slot s takes up request r
Accept(s, r) ==
    /\ req' = [req EXCEPT ![s] = r]
    /\ last' = NoResponse

\* a read step of a handler: tables and cache stay as they are
ReadOnly == UNCHANGED <<db, cache>>

\* -------------------------------------------------- get_or_create_tags
\* the slots whose request resolves tags: it carries `todo`, the kept names the loop
\* has still to go through, `tag_objects`, the ids of the list `tags` built so far,
\* and `pending`, the rows its transaction has inserted and not committed
Resolving(s) == req[s].op \in {"create_note", "update_note"}

PendingNames(s) == {req[s].pending[i].name : i \in 1..Len(req[s].pending)}

\* the id of the row the transaction of slot s sees under a name: a committed row
\* or a row of its own
VisibleTagId(s, name) ==
    IF name \in TagNames THEN TagIdOf(tags, name)
    ELSE req[s].pending[CHOOSE i \in 1..Len(req[s].pending) :
                            req[s].pending[i].name = name].id

\* the slots, other than s, whose open transaction has inserted a row of that name:
\* the unique index makes an INSERT of the name wait for them
Holders(s, name) ==
    {t \in Slots \ {s} : Resolving(t) /\ name \in PendingNames(t)}

\* the INSERT of slot s waits for a transaction whose own INSERT waits for slot s
Deadlocked(s, name) ==
    \E t \in Holders(s, name) :
        /\ req[t].pc = "wait"
        /\ Head(req[t].todo) \in PendingNames(s)

\* the ids the request of slot t may still draw from the tags.id sequence: one for
\* each INSERT it may start
TagDraws(t) ==
    Cardinality(Range(req[t].todo) \ TagNames)
    + (IF req[t].pc = "flush" /\ Head(req[t].todo) \in TagNames THEN 1 ELSE 0)
    - (IF req[t].pc = "wait" /\ Head(req[t].todo) \notin TagNames THEN 1 ELSE 0)

RECURSIVE SumDraws(_)
SumDraws(S) ==
    IF S = {} THEN 0
    ELSE LET t == CHOOSE x \in S : TRUE IN TagDraws(t) + SumDraws(S \ {t})

\* the tag ids the requests in flight, and one more with those names, may still use
PlannedTags(names) ==
    Cardinality(Range(names) \ TagNames)
    + SumDraws({t \in Slots : Resolving(t) /\ req[t].pc \in {"select", "flush", "wait"}})

\* the tags table with the rows slot s has inserted, as its commit leaves it
TagsCommitted(s) ==
    LET rows == Range(req[s].pending)
        ids  == {row.id : row \in rows}
    IN  [t \in DOMAIN tags \cup ids |->
            IF t \in DOMAIN tags THEN tags[t]
            ELSE (CHOOSE row \in rows : row.id = t).name]

\* the loop goes on with the next name, or the call returns
AfterTag(s) == IF Tail(req[s].todo) = << >> THEN "commit" ELSE "select"

\* the loop that never looks for the tag: every name is inserted
TagSelectNoLookup(s) ==
    /\ Resolving(s)
    /\ req[s].pc = "select"
    /\ req' = [req EXCEPT ![s].pc = "flush"]
    /\ last' = NoResponse
    /\ ReadOnly

\* "Try to get existing tag": result = await db.execute(select(Tag).where(...)) for
\* the next name; a tag found is appended to the list
TagSelect(s) ==
    /\ Resolving(s)
    /\ req[s].pc = "select"
    /\ LET tag_name == Head(req[s].todo) IN
       IF tag_name \in TagNames \cup PendingNames(s)
       THEN req' = [req EXCEPT ![s].tag_objects = Append(@, VisibleTagId(s, tag_name)),
                               ![s].todo = Tail(@),
                               ![s].pc = AfterTag(s)]
       ELSE req' = [req EXCEPT ![s].pc = "flush"]
    /\ last' = NoResponse
    /\ ReadOnly

\* the row of the name next in `todo` is inserted under id t, and the loop goes on
TagInserted(s, t) ==
    /\ req' = [req EXCEPT
                  ![s].pending = Append(@, [id |-> t, name |-> Head(req[s].todo)]),
                  ![s].tag_objects = Append(@, t),
                  ![s].todo = Tail(@),
                  ![s].pc = AfterTag(s)]
    /\ last' = NoResponse

\* the flush over a tags table whose name column is not unique
TagFlushNoUnique(s) ==
    /\ Resolving(s)
    /\ req[s].pc = "flush"
    /\ TagInserted(s, nextTag)
    /\ nextTag' = nextTag + 1
    /\ UNCHANGED <<users, nextUser, notes, tags, shares, nextNote, nextShare, cache>>

\* "Create new tag": db.add(tag); await db.flush().  The INSERT draws the id of the
\* row from the sequence when it starts; it is rejected when a row of the name is
\* committed, and waits while another open transaction holds a row of the name
TagFlush(s) ==
    /\ Resolving(s)
    /\ req[s].pc = "flush"
    /\ LET tag_name == Head(req[s].todo) IN
       IF tag_name \in TagNames
       THEN Respond(s, "error")
       ELSE IF Holders(s, tag_name) # {}
       THEN /\ req' = [req EXCEPT ![s].pc = "wait", ![s].tag_id = nextTag]
            /\ last' = NoResponse
       ELSE TagInserted(s, nextTag)
    /\ nextTag' = nextTag + 1
    /\ UNCHANGED <<users, nextUser, notes, tags, shares, nextNote, nextShare, cache>>

\* the wait of the INSERT is over: the transaction that held the name has ended (the
\* INSERT is rejected if it committed the row), or the two wait for each other and
\* the database ends this one
TagWait(s) ==
    /\ Resolving(s)
    /\ req[s].pc = "wait"
    /\ LET tag_name == Head(req[s].todo) IN
       /\ Holders(s, tag_name) = {} \/ Deadlocked(s, tag_name)
       /\ IF tag_name \in TagNames \/ Holders(s, tag_name) # {}
          THEN Respond(s, "error")
          ELSE TagInserted(s, req[s].tag_id)
    /\ ReadOnly

\* one await of the loop of get_or_create_tags
get_or_create_tags(s) ==
    \/ TagSelect(s)
    \/ TagFlush(s)
    \/ TagWait(s)

\* ------------------------------------------------------------ get_note
\* what the two queries of get_note give when both read the same tables: the
\* owner's, then the join with note_shares, whose scalar_one_or_none() raises
\* MultipleResultsFound on a second row
GetNoteOver(noteTable, shareTable, u, n) ==
    LET rows == {i \in DOMAIN shareTable :
                    shareTable[i].note = n /\ shareTable[i].user = u}
    IN  IF n \in DOMAIN noteTable /\ noteTable[n].owner = u THEN "ok"
        ELSE IF n \notin DOMAIN noteTable THEN "not_found"
        ELSE IF Cardinality(rows) = 0 THEN "not_found"
        ELSE IF Cardinality(rows) = 1 THEN "ok"
        ELSE "error"

GetNoteDetail(u, n) == GetNoteOver(notes, shares, u, n)

\* a get_note request arrives; "Check if user owns the note"
GetNoteOwner(s, u, n) ==
    /\ IsIdle(s)
    /\ Accept(s, [op |-> "get_note", user |-> u, note |-> n, target |-> NoId,
                  pc |-> IF OwnedNote(n, u) THEN "usernames" ELSE "shared"])
    /\ ReadOnly

\* "Check if note is shared with user": Note joined with NoteShare
GetNoteShared(s) ==
    /\ At(s, "get_note", "shared")
    /\ LET rows == IF req[s].note \in DOMAIN notes
                   THEN ShareRows(req[s].note, req[s].user) ELSE {} IN
       IF rows = {} THEN Respond(s, "not_found")
       ELSE IF Cardinality(rows) = 1 THEN Goto(s, "usernames")
       ELSE Respond(s, "error")
    /\ ReadOnly

\* shared_with = await get_shared_with_usernames(...); the note is returned
GetNoteUsernames(s) ==
    /\ At(s, "get_note", "usernames")
    /\ Respond(s, "ok")
    /\ ReadOnly


\* ---------------------------------------------------------- share_note
\* share_note whose first query asks for the note alone, not for its owner
ShareCheckOwnerAnyUser(s, u, n, t, p) ==
    /\ IsIdle(s)
    /\ nextShare + InFlight("share_note") <= MaxShares
    /\ IF n \in DOMAIN notes
       THEN Accept(s, [op |-> "share_note", user |-> u, note |-> n, target |-> t,
                       perm |-> p, pc |-> "check_target"])
       ELSE /\ last' = [Response("share_note", u, n, t, "not_found")
                          EXCEPT !.perm = p]
            /\ UNCHANGED req
    /\ ReadOnly

\* a share request arrives; "Check if current user owns the note"
ShareCheckOwner(s, u, n, t, p) ==
    /\ IsIdle(s)
    /\ nextShare + InFlight("share_note") <= MaxShares
    /\ IF OwnedNote(n, u)
       THEN Accept(s, [op |-> "share_note", user |-> u, note |-> n, target |-> t,
                       perm |-> p, pc |-> "check_target"])
       ELSE /\ last' = [Response("share_note", u, n, t, "not_found")
                          EXCEPT !.perm = p]
            /\ UNCHANGED req
    /\ ReadOnly

\* "Check if target user exists"
ShareCheckTarget(s) ==
    /\ At(s, "share_note", "check_target")
    /\ IF req[s].target \in DOMAIN users
       THEN Goto(s, "check_existing")
       ELSE Respond(s, "user_not_found")
    /\ ReadOnly

\* share_note without the look at the rows already there
ShareCheckExistingSkipped(s) ==
    /\ At(s, "share_note", "check_existing")
    /\ Goto(s, "commit")
    /\ ReadOnly

\* share_note as an upsert: a row already there takes the level the request names
ShareCheckExistingUpsert(s) ==
    /\ At(s, "share_note", "check_existing")
    /\ LET rows == ShareRows(req[s].note, req[s].target) IN
       IF rows = {} THEN Goto(s, "commit") /\ UNCHANGED shares
       ELSE IF Cardinality(rows) = 1
            THEN /\ shares' = [i \in DOMAIN shares |->
                                 IF i \in rows
                                 THEN [shares[i] EXCEPT !.permission = req[s].perm]
                                 ELSE shares[i]]
                 /\ Respond(s, "ok")
       ELSE Respond(s, "error") /\ UNCHANGED shares
    /\ UNCHANGED <<users, nextUser, notes, tags, nextNote, nextTag, nextShare, cache>>

\* "Check if note is already shared with this user"
ShareCheckExisting(s) ==
    /\ At(s, "share_note", "check_existing")
    /\ LET rows == ShareRows(req[s].note, req[s].target) IN
       IF rows = {} THEN Goto(s, "commit")
       ELSE IF Cardinality(rows) = 1 THEN Respond(s, "already")
       ELSE Respond(s, "error")
    /\ ReadOnly

\* share_note over a note_shares table with a unique (note_id, user_id)
ShareCommitUnique(s) ==
    /\ At(s, "share_note", "commit")
    /\ IF req[s].note \in DOMAIN notes /\ ShareRows(req[s].note, req[s].target) = {}
       THEN /\ shares' = [i \in DOMAIN shares \cup {nextShare} |->
                            IF i = nextShare
                            THEN [note |-> req[s].note, user |-> req[s].target,
                                  permission |-> "read"]
                            ELSE shares[i]]
            /\ Respond(s, "ok")
       ELSE /\ UNCHANGED shares
            /\ Respond(s, "error")
    /\ nextShare' = nextShare + 1
    /\ UNCHANGED <<users, nextUser, notes, tags, nextNote, nextTag, cache>>

\* share_note over a note_shares table whose note_id is no foreign key
ShareCommitNoForeignKey(s) ==
    /\ At(s, "share_note", "commit")
    /\ shares' = [i \in DOMAIN shares \cup {nextShare} |->
                    IF i = nextShare
                    THEN [note |-> req[s].note, user |-> req[s].target,
                          permission |-> "read"]
                    ELSE shares[i]]
    /\ nextShare' = nextShare + 1
    /\ Respond(s, "ok")
    /\ UNCHANGED <<users, nextUser, notes, tags, nextNote, nextTag, cache>>

\* db.add(NoteShare(note_id, user_id)); db.commit(): the row takes the column
\* default permission; note_shares.note_id is a foreign key to notes.id
ShareCommit(s) ==
    /\ At(s, "share_note", "commit")
    /\ IF req[s].note \in DOMAIN notes
       THEN /\ shares' = [i \in DOMAIN shares \cup {nextShare} |->
                            IF i = nextShare
                            THEN [note |-> req[s].note, user |-> req[s].target,
                                  permission |-> "read"]
                            ELSE shares[i]]
            /\ Respond(s, "ok")
       ELSE /\ UNCHANGED shares
            /\ Respond(s, "error")
    /\ nextShare' = nextShare + 1
    /\ UNCHANGED <<users, nextUser, notes, tags, nextNote, nextTag, cache>>

\* -------------------------------------------------------- unshare_note
\* an unshare request arrives; "Check if current user owns the note"
UnshareCheckOwner(s, u, n, t) ==
    /\ IsIdle(s)
    /\ IF OwnedNote(n, u)
       THEN Accept(s, [op |-> "unshare_note", user |-> u, note |-> n, target |-> t,
                       pc |-> "find", loaded |-> {}])
       ELSE Reject(s, "unshare_note", u, n, t, "not_found")
    /\ ReadOnly

\* "Find and delete the share"
UnshareFind(s) ==
    /\ At(s, "unshare_note", "find")
    /\ LET rows == ShareRows(req[s].note, req[s].target) IN
       IF rows = {} THEN Respond(s, "share_not_found")
       ELSE IF Cardinality(rows) = 1
            THEN req' = [req EXCEPT ![s].pc = "commit", ![s].loaded = rows]
                 /\ last' = NoResponse
       ELSE Respond(s, "error")
    /\ ReadOnly

\* db.delete(note_share); db.commit(): DELETE by primary key (a row already gone
\* matches nothing, which the ORM only warns about)
UnshareCommit(s) ==
    /\ At(s, "unshare_note", "commit")
    /\ shares' = Restrict(shares, DOMAIN shares \ req[s].loaded)
    /\ Respond(s, "ok")
    /\ UNCHANGED <<users, nextUser, notes, tags, nextNote, nextTag, nextShare, cache>>

\* --------------------------------------------------------- delete_note
\* a delete request arrives; the owner's query for the note
DeleteCheckOwner(s, u, n) ==
    /\ IsIdle(s)
    /\ IF OwnedNote(n, u)
       THEN Accept(s, [op |-> "delete_note", user |-> u, note |-> n, target |-> NoId,
                       pc |-> "delete", loaded |-> {}])
       ELSE Reject(s, "delete_note", u, n, NoId, "not_found")
    /\ ReadOnly

\* db.delete(note): the delete cascade of Note.shared_with loads the note's share
\* rows and marks each for deletion
DeleteCascade(s) ==
    /\ At(s, "delete_note", "delete")
    /\ req' = [req EXCEPT ![s].pc = "commit",
                          ![s].loaded = SharesOfNote(req[s].note)]
    /\ last' = NoResponse
    /\ ReadOnly

\* delete_note over a Note.shared_with that does not cascade and a note_shares
\* table without the foreign key
DeleteCommitNoCascade(s) ==
    /\ At(s, "delete_note", "commit")
    /\ LET n == req[s].note IN
       IF n \notin DOMAIN notes
       THEN UNCHANGED notes /\ Respond(s, "ok")
       ELSE notes' = Restrict(notes, DOMAIN notes \ {n}) /\ Respond(s, "ok")
    /\ UNCHANGED <<users, nextUser, tags, shares, nextNote, nextTag, nextShare, cache>>

\* db.commit(): DELETE of the loaded share rows, of the note's note_tags rows and of
\* the note.  A share row of the note that was committed after the cascade loaded
\* them still references the note: the foreign key rejects the DELETE of the note.
\* A note already deleted matches nothing, which the ORM only warns about.
DeleteCommit(s) ==
    /\ At(s, "delete_note", "commit")
    /\ LET n == req[s].note IN
       IF n \notin DOMAIN notes
       THEN UNCHANGED <<notes, shares>> /\ Respond(s, "ok")
       ELSE IF SharesOfNote(n) \subseteq req[s].loaded
       THEN /\ notes' = Restrict(notes, DOMAIN notes \ {n})
            /\ shares' = Restrict(shares, DOMAIN shares \ req[s].loaded)
            /\ Respond(s, "ok")
       ELSE UNCHANGED <<notes, shares>> /\ Respond(s, "error")
    /\ UNCHANGED <<users, nextUser, tags, nextNote, nextTag, nextShare, cache>>

\* --------------------------------------------------------- create_note
\* a create request arrives: the handler enters get_or_create_tags(note.tags or []),
\* whose loop skips the names that are empty once stripped
CreateTags(s, u, title, content, tag_names) ==
    /\ IsIdle(s)
    /\ nextNote + InFlight("create_note") <= MaxNotes
    /\ nextTag - 1 + PlannedTags(ResolvedNames(tag_names)) <= MaxTags
    /\ Accept(s, [op |-> "create_note", user |-> u, note |-> NoId, target |-> NoId,
                  title |-> title, content |-> content, tags |-> tag_names,
                  todo |-> ResolvedNames(tag_names), tag_objects |-> << >>,
                  pending |-> << >>, tag_id |-> NoId,
                  pc |-> IF ResolvedNames(tag_names) = << >>
                         THEN "commit" ELSE "select"])
    /\ ReadOnly

\* db_note.tags = tag_objects; db.add(db_note); await db.commit(): INSERT of the note
\* and of one note_tags row per entry of the list (note_tags has the primary key
\* (note_id, tag_id)); a rejected INSERT rolls the transaction back, the id drawn
\* from the sequence is spent either way
CreateCommit(s) ==
    /\ At(s, "create_note", "commit")
    /\ IF HasDuplicate(req[s].tag_objects)
       THEN /\ UNCHANGED <<notes, tags>>
            /\ Respond(s, "error")
       ELSE /\ tags' = TagsCommitted(s)
            /\ notes' = [n \in DOMAIN notes \cup {nextNote} |->
                           IF n = nextNote
                           THEN [owner |-> req[s].user, title |-> req[s].title,
                                 content |-> req[s].content,
                                 tags |-> Range(req[s].tag_objects)]
                           ELSE notes[n]]
            /\ req' = [req EXCEPT ![s].pc = "refresh", ![s].note = nextNote,
                                  ![s].pending = << >>]
            /\ last' = NoResponse
    /\ nextNote' = nextNote + 1
    /\ UNCHANGED <<users, nextUser, shares, nextTag, nextShare, cache>>

\* await db.refresh(db_note): a row that is gone raises InvalidRequestError
CreateRefresh(s) ==
    /\ At(s, "create_note", "refresh")
    /\ IF req[s].note \in DOMAIN notes
       THEN Goto(s, "reload")
       ELSE Respond(s, "error")
    /\ ReadOnly

\* "Reload the note with tags": select(Note).where(Note.id == db_note.id), whose
\* scalar_one() raises NoResultFound on no row; the response
CreateReload(s) ==
    /\ At(s, "create_note", "reload")
    /\ IF req[s].note \in DOMAIN notes
       THEN Respond(s, "ok")
       ELSE Respond(s, "error")
    /\ ReadOnly


\* --------------------------------------------------------- update_note
\* the request an update_note handler carries once the owner's query has found the
\* note: the query also loads the note's columns and tags; with 'tags' in the body
\* the handler enters get_or_create_tags(update_data['tags'] or [])
UpdateRequest(u, n, body) ==
    LET names == IF "tags" \in body.fields THEN ResolvedNames(body.tags) ELSE << >>
    IN  [op |-> "update_note", user |-> u, note |-> n, target |-> NoId,
         body |-> body, loaded |-> notes[n],
         todo |-> names, tag_objects |-> << >>, pending |-> << >>,
         tag_id |-> NoId,
         pc |-> IF names = << >> THEN "commit" ELSE "select"]

\* the tag inserts a request with that body may still make
UpdatePlanned(body) ==
    PlannedTags(IF "tags" \in body.fields THEN ResolvedNames(body.tags) ELSE << >>)

\* update_note that lets the holder of a share row through
UpdateCheckOwnerOrShared(s, u, n, body) ==
    /\ IsIdle(s)
    /\ nextTag - 1 + UpdatePlanned(body) <= MaxTags
    /\ IF OwnedNote(n, u) \/ (n \in DOMAIN notes /\ ShareRows(n, u) # {})
       THEN Accept(s, UpdateRequest(u, n, body))
       ELSE Reject(s, "update_note", u, n, NoId, "forbidden")
    /\ ReadOnly

\* update_note that resolves the tags of the body before it looks for the note
UpdateCheckOwnerTagsFirst(s, u, n, body) ==
    /\ IsIdle(s)
    /\ nextTag - 1 + UpdatePlanned(body) <= MaxTags
    /\ IF OwnedNote(n, u)
       THEN /\ Accept(s, UpdateRequest(u, n, body))
            /\ UNCHANGED <<tags, nextTag>>
       ELSE /\ Reject(s, "update_note", u, n, NoId, "forbidden")
            /\ LET names == IF "tags" \in body.fields
                            THEN Range(ResolvedNames(body.tags)) \ TagNames ELSE {}
               IN  IF names = {} THEN UNCHANGED <<tags, nextTag>>
                   ELSE /\ tags' = [t \in DOMAIN tags \cup {nextTag} |->
                                      IF t = nextTag THEN CHOOSE nm \in names : TRUE
                                      ELSE tags[t]]
                        /\ nextTag' = nextTag + 1
    /\ UNCHANGED <<users, nextUser, notes, shares, nextNote, nextShare, cache>>

\* an update request arrives; "Check if user owns the note"
UpdateCheckOwner(s, u, n, body) ==
    /\ IsIdle(s)
    /\ nextTag - 1 + UpdatePlanned(body) <= MaxTags
    /\ IF OwnedNote(n, u)
       THEN Accept(s, UpdateRequest(u, n, body))
       ELSE Reject(s, "update_note", u, n, NoId, "forbidden")
    /\ ReadOnly

\* what the unit of work of an update request has to write at its commit, from the
\* row and the tag collection it loaded: the tag links to add and to remove, and
\* whether a column differs
UpdateAdds(s) ==
    IF "tags" \in req[s].body.fields
    THEN Range(req[s].tag_objects) \ req[s].loaded.tags ELSE {}

UpdateRemoves(s) ==
    IF "tags" \in req[s].body.fields
    THEN req[s].loaded.tags \ Range(req[s].tag_objects) ELSE {}

UpdateDirty(s) ==
    \/ "title" \in req[s].body.fields /\ req[s].body.title # req[s].loaded.title
    \/ "content" \in req[s].body.fields /\ req[s].body.content # req[s].loaded.content

\* the commit of an update request is rejected: the UPDATE finds no row, an INSERT
\* into note_tags meets its primary key or has no note to refer to, or (`stale`:
\* the driver reports the row count) the DELETE from note_tags misses a row
UpdateFails(s, stale) ==
    LET n   == req[s].note
        cur == IF n \in DOMAIN notes THEN notes[n].tags ELSE {}
    IN  \/ n \notin DOMAIN notes /\ (UpdateDirty(s) \/ UpdateAdds(s) # {})
        \/ \E i, j \in 1..Len(req[s].tag_objects) :
              /\ i < j
              /\ req[s].tag_objects[i] = req[s].tag_objects[j]
              /\ req[s].tag_objects[i] \in UpdateAdds(s)
        \/ UpdateAdds(s) \cap cur # {}
        \/ stale /\ ~(UpdateRemoves(s) \subseteq cur)

\* update_note over a NoteUpdate that carries owner_id: the setattr loop writes it
UpdateCommitOwnerField(s, stale) ==
    /\ At(s, "update_note", "commit")
    /\ LET n == req[s].note IN
       IF n \notin DOMAIN notes
       THEN UNCHANGED notes /\ Respond(s, "error")
       ELSE /\ notes' = [notes EXCEPT ![n].owner = (@ % NumUsers) + 1]
            /\ Goto(s, "refresh")
    /\ UNCHANGED <<users, nextUser, tags, shares, nextNote, nextTag, nextShare, cache>>

\* note.tags = tag_objects; setattr(note, field, value); await db.commit(): the unit
\* of work writes what differs from what the request loaded
UpdateCommit(s, stale) ==
    /\ At(s, "update_note", "commit")
    /\ LET n    == req[s].note
           body == req[s].body
       IN  IF UpdateFails(s, stale)
           THEN /\ UNCHANGED <<notes, tags>>
                /\ Respond(s, "error")
           ELSE /\ tags' = TagsCommitted(s)
                /\ notes' = [m \in DOMAIN notes |->
                     IF m # n THEN notes[m]
                     ELSE [owner   |-> notes[n].owner,
                           title   |-> IF "title" \in body.fields
                                          /\ body.title # req[s].loaded.title
                                       THEN body.title ELSE notes[n].title,
                           content |-> IF "content" \in body.fields
                                          /\ body.content # req[s].loaded.content
                                       THEN body.content ELSE notes[n].content,
                           tags    |-> (notes[n].tags \ UpdateRemoves(s))
                                           \cup UpdateAdds(s)]]
                /\ req' = [req EXCEPT ![s].pc = "refresh", ![s].pending = << >>]
                /\ last' = NoResponse
    /\ UNCHANGED <<users, nextUser, shares, nextNote, nextTag, nextShare, cache>>

\* await db.refresh(note): a row that is gone raises InvalidRequestError
UpdateRefresh(s) ==
    /\ At(s, "update_note", "refresh")
    /\ IF req[s].note \in DOMAIN notes
       THEN Goto(s, "usernames")
       ELSE Respond(s, "error")
    /\ ReadOnly

\* shared_with = await get_shared_with_usernames(...); the response
UpdateUsernames(s) ==
    /\ At(s, "update_note", "usernames")
    /\ Respond(s, "ok")
    /\ ReadOnly


\* --------------------------------------------------------------- system
\* the service with its users registered, no note yet and an empty cache
Init ==
    /\ users = [u \in Users |-> [username |-> u, is_active |-> TRUE]]
    /\ nextUser = NumUsers + 1
    /\ notes = << >>
    /\ tags = << >>
    /\ shares = << >>
    /\ nextNote = 1
    /\ nextTag = 1
    /\ nextShare = 1
    /\ req = [s \in Slots |-> Idle]
    /\ last = NoResponse
    /\ access = [u \in Users |-> NoToken]
    /\ refresh = [u \in Users |-> NoToken]
    /\ now = 0
    /\ issued = {}

\* a request taken up by slot s, or one step of the handler that slot s runs
NotesStep(s) ==
    \/ \E u \in Users, title \in Titles, content \in Contents, tl \in TagLists :
          CreateTags(s, u, title, content, tl)
    \/ get_or_create_tags(s)
    \/ CreateCommit(s)
    \/ CreateRefresh(s)
    \/ CreateReload(s)
    \/ \E u \in Users, n \in NoteIds, body \in UpdateBodies :
          UpdateCheckOwner(s, u, n, body)
    \/ \E stale \in BOOLEAN : UpdateCommit(s, stale)
    \/ UpdateRefresh(s)
    \/ UpdateUsernames(s)
    \/ \E u \in Users, n \in NoteIds : DeleteCheckOwner(s, u, n)
    \/ DeleteCascade(s)
    \/ DeleteCommit(s)
    \/ \E u \in Users, n \in NoteIds, t \in UserIds, p \in Permissions :
          ShareCheckOwner(s, u, n, t, p)
    \/ ShareCheckTarget(s)
    \/ ShareCheckExisting(s)
    \/ ShareCommit(s)
    \/ \E u \in Users, n \in NoteIds, t \in UserIds : UnshareCheckOwner(s, u, n, t)
    \/ UnshareFind(s)
    \/ UnshareCommit(s)
    \/ \E u \in Users, n \in NoteIds : GetNoteOwner(s, u, n)
    \/ GetNoteShared(s)
    \/ GetNoteUsernames(s)

Next == \E s \in Slots : NotesStep(s)

Spec == Init /\ [][Next]_vars

\* ------------------------------------------------------ token issuer
\* create_access_token / create_refresh_token for the user, at the current second
AccessToken(u)  == [sub |-> users[u].username, iat |-> now, typ |-> "access"]
RefreshToken(u) == [sub |-> users[u].username, iat |-> now, typ |-> "refresh"]

\* verify_token(token, token_type): the tokens clients hold are the issued ones, so
\* signatures are good; the type claim has to match
verify_token(token, token_type) == token.typ = token_type

\* select(User).where(User.username == name): the ids found
UsersNamed(name) == {u \in DOMAIN users : users[u].username = name}

UserNamed(name) == CHOOSE u \in DOMAIN users : users[u].username = name

\* a step that leaves the tables alone and, but for `keys`, the cache
AuthFrame == UNCHANGED <<db, now>>

\* --------------------------------------------------------------- login
\* a login request arrives; the user query, the password check, the two tokens
LoginCheck(s, name, password_ok) ==
    /\ IsIdle(s)
    /\ IF UsersNamed(name) = {} \/ ~password_ok
       THEN Reject(s, "login", NoId, NoId, NoId, "unauthorized")
       ELSE IF ~users[UserNamed(name)].is_active
       THEN Reject(s, "login", UserNamed(name), NoId, NoId, "inactive")
       ELSE Accept(s, [op |-> "login", user |-> UserNamed(name), note |-> NoId,
                       target |-> NoId, pc |-> "set_access",
                       access_token |-> AccessToken(UserNamed(name)),
                       refresh_token |-> RefreshToken(UserNamed(name))])
    /\ UNCHANGED <<db, cache>>

\* redis_client.setex(f"access_token:{user.id}", ..., access_token)
LoginSetAccess(s) ==
    /\ At(s, "login", "set_access")
    /\ access' = [access EXCEPT ![req[s].user] = req[s].access_token]
    /\ Goto(s, "set_refresh")
    /\ UNCHANGED <<refresh, issued>>
    /\ AuthFrame

\* redis_client.setex(f"refresh_token:{user.id}", ..., refresh_token); the response
\* carries both tokens
LoginSetRefresh(s) ==
    /\ At(s, "login", "set_refresh")
    /\ refresh' = [refresh EXCEPT ![req[s].user] = req[s].refresh_token]
    /\ issued' = issued \cup {req[s].access_token, req[s].refresh_token}
    /\ Respond(s, "ok")
    /\ UNCHANGED access
    /\ AuthFrame

\* ------------------------------------------------------- refresh_token
\* a refresh request arrives: verify_token(refresh_token, "refresh"), the user query
RefreshVerify(s, token) ==
    /\ IsIdle(s)
    /\ IF ~verify_token(token, "refresh") \/ UsersNamed(token.sub) = {}
       THEN /\ last' = [Response("refresh_token", NoId, NoId, NoId, "unauthorized")
                          EXCEPT !.token = token]
            /\ UNCHANGED req
       ELSE Accept(s, [op |-> "refresh_token", user |-> UserNamed(token.sub),
                       note |-> NoId, target |-> NoId, token |-> token,
                       pc |-> "check_cache", access_token |-> NoToken])
    /\ UNCHANGED <<db, cache>>

\* refresh_token whose check is only that some refresh token is cached
RefreshCheckCachePresence(s) ==
    /\ At(s, "refresh_token", "check_cache")
    /\ IF refresh[req[s].user] = NoToken
       THEN Respond(s, "unauthorized")
       ELSE /\ req' = [req EXCEPT ![s].pc = "set_access",
                                  ![s].access_token = AccessToken(req[s].user)]
            /\ last' = NoResponse
    /\ UNCHANGED <<db, cache>>

\* "Check if refresh token exists in Redis"; then "Create new access token"
RefreshCheckCache(s) ==
    /\ At(s, "refresh_token", "check_cache")
    /\ LET stored_refresh_token == refresh[req[s].user] IN
       IF stored_refresh_token = NoToken \/ stored_refresh_token # req[s].token
       THEN Respond(s, "unauthorized")
       ELSE /\ req' = [req EXCEPT ![s].pc = "set_access",
                                  ![s].access_token = AccessToken(req[s].user)]
            /\ last' = NoResponse
    /\ UNCHANGED <<db, cache>>

\* "Update access token in Redis"; the response carries the new access token
RefreshSetAccess(s) ==
    /\ At(s, "refresh_token", "set_access")
    /\ access' = [access EXCEPT ![req[s].user] = req[s].access_token]
    /\ issued' = issued \cup {req[s].access_token}
    /\ Respond(s, "ok")
    /\ UNCHANGED refresh
    /\ AuthFrame

\* -------------------------------------------------------------- logout
\* get_current_user: the bearer token is an access token of an existing user
get_current_user(token) ==
    IF verify_token(token, "access") /\ UsersNamed(token.sub) # {}
    THEN UserNamed(token.sub) ELSE NoId

\* a logout request arrives; redis_client.delete(f"access_token:{current_user.id}")
LogoutDeleteAccess(s, token) ==
    /\ IsIdle(s)
    /\ IF get_current_user(token) = NoId
       THEN /\ Reject(s, "logout", NoId, NoId, NoId, "unauthorized")
            /\ UNCHANGED access
       ELSE /\ access' = [access EXCEPT ![get_current_user(token)] = NoToken]
            /\ Accept(s, [op |-> "logout", user |-> get_current_user(token),
                          note |-> NoId, target |-> NoId, pc |-> "delete_refresh"])
    /\ UNCHANGED <<refresh, issued>>
    /\ AuthFrame

\* logout that leaves the refresh token in the cache
LogoutDeleteRefreshSkipped(s) ==
    /\ At(s, "logout", "delete_refresh")
    /\ Respond(s, "ok")
    /\ UNCHANGED <<db, cache>>

\* redis_client.delete(f"refresh_token:{current_user.id}")
LogoutDeleteRefresh(s) ==
    /\ At(s, "logout", "delete_refresh")
    /\ refresh' = [refresh EXCEPT ![req[s].user] = NoToken]
    /\ Respond(s, "ok")
    /\ UNCHANGED <<access, issued>>
    /\ AuthFrame

\* ---------------------------------------------------------------- time
\* a second passes.  The clock stays within MaxTime seconds, far less than the TTL
\* setex gives a cache entry and than the life of a token: none runs out.
Tick ==
    /\ now < MaxTime
    /\ now' = now + 1
    /\ last' = NoResponse
    /\ UNCHANGED <<db, req, access, refresh, issued>>

AuthStep(s) ==
    \/ \E name \in UserIds, password_ok \in BOOLEAN : LoginCheck(s, name, password_ok)
    \/ LoginSetAccess(s)
    \/ LoginSetRefresh(s)
    \/ \E token \in issued : RefreshVerify(s, token)
    \/ RefreshCheckCache(s)
    \/ RefreshSetAccess(s)
    \/ \E token \in issued : LogoutDeleteAccess(s, token)
    \/ LogoutDeleteRefresh(s)

AuthNext ==
    \/ \E s \in Slots : AuthStep(s)
    \/ Tick

AuthSpec == Init /\ [][AuthNext]_vars

\* requests are served one at a time: a slot moves only while every other is idle
OthersIdle(s) == \A t \in Slots \ {s} : IsIdle(t)

SeqNext == \E s \in Slots : OthersIdle(s) /\ NotesStep(s)

SeqSpec == Init /\ [][SeqNext]_vars

\* ------------------------------------------------------------ register
RegisterNames == 1..MaxNames

\* register without the look for the username
RegisterCheckNoLookup(s, name) ==
    /\ IsIdle(s)
    /\ Accept(s, [op |-> "register", user |-> NoId, note |-> NoId, target |-> name,
                  pc |-> "commit"])
    /\ UNCHANGED <<db, cache>>

\* a register request arrives; "Check if user already exists"
RegisterCheck(s, name) ==
    /\ IsIdle(s)
    /\ IF UsersNamed(name) = {}
       THEN Accept(s, [op |-> "register", user |-> NoId, note |-> NoId,
                       target |-> name, pc |-> "commit"])
       ELSE IF Cardinality(UsersNamed(name)) = 1
       THEN Reject(s, "register", NoId, NoId, name, "registered")
       ELSE Reject(s, "register", NoId, NoId, name, "error")
    /\ UNCHANGED <<db, cache>>

\* db.add(db_user); await db.commit(): the INSERT draws the id of the row from the
\* sequence; the users table takes the row unless the username is stored by now
\* (User: unique username)
RegisterCommit(s) ==
    /\ At(s, "register", "commit")
    /\ IF UsersNamed(req[s].target) = {}
       THEN /\ users' = [u \in DOMAIN users \cup {nextUser} |->
                           IF u \in DOMAIN users THEN users[u]
                           ELSE [username |-> req[s].target, is_active |-> TRUE]]
            /\ req' = [req EXCEPT ![s].pc = "refresh", ![s].user = nextUser]
            /\ last' = NoResponse
       ELSE /\ UNCHANGED users
            /\ Respond(s, "error")
    /\ nextUser' = nextUser + 1
    /\ UNCHANGED <<notes, tags, shares, nextNote, nextTag, nextShare, cache>>

\* await db.refresh(db_user); the response
RegisterRefresh(s) ==
    /\ At(s, "register", "refresh")
    /\ IF req[s].user \in DOMAIN users
       THEN Respond(s, "ok")
       ELSE Respond(s, "error")
    /\ UNCHANGED <<db, cache>>

RegisterStep(s) ==
    \/ \E name \in RegisterNames : RegisterCheck(s, name)
    \/ RegisterCommit(s)
    \/ RegisterRefresh(s)

\* register requests, interleaved at their awaits
RegisterNext == \E s \in Slots : RegisterStep(s)

RegisterSpec == Init /\ [][RegisterNext]_vars

\* ------------------------------------------------ the tag resolver alone
\* tag names a caller may hand in: blank, lower case, upper case, padded
TagInputNames == { <<" ">>, <<"w">>, <<" ", "W", " ">>, <<"x">> }

TagInputs == UNION {[1..k -> TagInputNames] : k \in 0..MaxLen}

\* update_note bodies that carry tags only
TagBodies ==
    {[fields |-> {"tags"}, title |-> "", content |-> "", tags |-> tag_names] :
        tag_names \in TagInputs}

\* the service with one note of user 1 and no tag yet
TagInit ==
    /\ users = [u \in Users |-> [username |-> u, is_active |-> TRUE]]
    /\ nextUser = NumUsers + 1
    /\ notes = << [owner |-> 1, title |-> "t1", content |-> Null, tags |-> {}] >>
    /\ tags = << >>
    /\ shares = << >>
    /\ nextNote = 2
    /\ nextTag = 1
    /\ nextShare = 1
    /\ req = [s \in Slots |-> Idle]
    /\ last = NoResponse
    /\ access = [u \in Users |-> NoToken]
    /\ refresh = [u \in Users |-> NoToken]
    /\ now = 0
    /\ issued = {}

\* update_note requests of the owner, whose get_or_create_tags calls interleave
TagStep(s) ==
    \/ \E body \in TagBodies : UpdateCheckOwner(s, 1, 1, body)
    \/ get_or_create_tags(s)
    \/ \E stale \in BOOLEAN : UpdateCommit(s, stale)
    \/ UpdateRefresh(s)
    \/ UpdateUsernames(s)

TagNext == \E s \in Slots : TagStep(s)

TagSpec == TagInit /\ [][TagNext]_vars

\* ------------------------------------------------- get_notes, search_notes
\* the `search` and `tags` query parameters (Null: not given); `tags` is the
\* comma-separated string, held as the list tags.split(",") makes of it
SearchTexts == {Null, "t1"}
TagFilters  == { << >>, << <<" ">>, <<"X", " ">> >> }

\* [tag.strip().lower() for tag in tags.split(",") if tag.strip()]
FilterNames(tag_filter) == Range(ResolvedNames(tag_filter))

\* the WHERE clauses the two filters add, for note n: title or content ILIKE
\* %search% (over the texts here a text holds `search` only if it equals it; a
\* NULL content matches nothing), and a tag of the note named in the filter
NoteMatches(n, search, tag_filter) ==
    /\ search # Null => (notes[n].title = search \/ notes[n].content = search)
    /\ FilterNames(tag_filter) # {}
          => \E t \in notes[n].tags : tags[t] \in FilterNames(tag_filter)

\* the orders in which a query without ORDER BY may return the rows S
Orders(S) ==
    {f \in [1..Cardinality(S) -> S] : \A i, j \in 1..Cardinality(S) : f[i] = f[j] => i = j}

Min(a, b) == IF a <= b THEN a ELSE b

\* query.offset(skip).limit(limit)
Page(rows, skip, limit) == SubSeq(rows, skip + 1, Min(Len(rows), skip + limit))

\* list({note.id: note for note in all_notes}.values()): the first place of each id
RECURSIVE UniqueNotes(_, _)
UniqueNotes(all_notes, seen) ==
    IF all_notes = << >> THEN << >>
    ELSE IF Head(all_notes) \in seen THEN UniqueNotes(Tail(all_notes), seen)
    ELSE <<Head(all_notes)>> \o UniqueNotes(Tail(all_notes), seen \cup {Head(all_notes)})

\* own_notes_query: the notes of owner u that pass the filters
OwnNotesRows(u, search, tag_filter) ==
    Orders({n \in DOMAIN notes : notes[n].owner = u /\ NoteMatches(n, search, tag_filter)})

\* shared_notes_query: Note joined with NoteShare, one row per share row of u; the
\* tag filter adds DISTINCT, which leaves one row per note
SharedNotesRows(u, search, tag_filter) ==
    LET rows == {i \in DOMAIN shares :
                    /\ shares[i].user = u
                    /\ shares[i].note \in DOMAIN notes
                    /\ NoteMatches(shares[i].note, search, tag_filter)}
    IN  IF FilterNames(tag_filter) # {}
        THEN Orders({shares[i].note : i \in rows})
        ELSE {[k \in 1..Len(order) |-> shares[order[k]].note] : order \in Orders(rows)}

\* the query of search_notes: Note outer-joined with the share rows of u, kept where
\* u is the owner or a share row joined; one row per joined share row, one row for
\* an own note without any; DISTINCT under the tag filter
SearchNotesRows(u, search, tag_filter) ==
    LET joined == {<<n, i>> \in (DOMAIN notes) \X (DOMAIN shares) :
                      /\ shares[i].note = n /\ shares[i].user = u
                      /\ NoteMatches(n, search, tag_filter)}
        alone  == {<<n, NoId>> : n \in {k \in DOMAIN notes :
                      /\ notes[k].owner = u
                      /\ ShareRows(k, u) = {}
                      /\ NoteMatches(k, search, tag_filter)}}
        rows   == joined \cup alone
    IN  IF FilterNames(tag_filter) # {}
        THEN Orders({row[1] : row \in rows})
        ELSE {[k \in 1..Len(order) |-> order[k][1]] : order \in Orders(rows)}

\* what the query of search_notes may return for user u
SearchNotesResults(u, skip, limit, search, tag_filter) ==
    {Page(rows, skip, limit) : rows \in SearchNotesRows(u, search, tag_filter)}

\* a list request: `rows` are the note ids read so far, `left` the notes whose
\* shared_with is still to be read
ListRequest(op, u, skip, limit, search, tag_filter, pc, rows) ==
    [op |-> op, user |-> u, note |-> NoId, target |-> NoId, skip |-> skip,
     limit |-> limit, search |-> search, tags |-> tag_filter, pc |-> pc,
     rows |-> rows, left |-> Len(rows)]

\* the response of the list request of slot s: the notes, by id and in order
Listing(s, result) ==
    /\ last' = [op |-> req[s].op, user |-> req[s].user, skip |-> req[s].skip,
                limit |-> req[s].limit, search |-> req[s].search,
                tags |-> req[s].tags, result |-> result]
    /\ req' = [req EXCEPT ![s] = Idle]

\* a get_notes request arrives; result = await db.execute(own_notes_query)
GetNotesOwn(s, u, skip, limit, search, tag_filter) ==
    /\ IsIdle(s)
    /\ \E own \in OwnNotesRows(u, search, tag_filter) :
          Accept(s, ListRequest("get_notes", u, skip, limit, search, tag_filter,
                                "shared", Page(own, skip, limit)))
    /\ ReadOnly

\* result = await db.execute(shared_notes_query); "Combine and return unique notes"
GetNotesShared(s) ==
    /\ At(s, "get_notes", "shared")
    /\ \E shared \in SharedNotesRows(req[s].user, req[s].search, req[s].tags) :
          LET unique_notes ==
                  UniqueNotes(req[s].rows \o Page(shared, req[s].skip, req[s].limit), {})
          IN  IF unique_notes = << >>
              THEN Listing(s, << >>)
              ELSE /\ req' = [req EXCEPT ![s].pc = "usernames",
                                         ![s].rows = unique_notes,
                                         ![s].left = Len(unique_notes)]
                   /\ last' = NoResponse
    /\ ReadOnly

\* a search_notes request arrives; result = await db.execute(query)
search_notes(s, u, skip, limit, search, tag_filter) ==
    /\ IsIdle(s)
    /\ \E found \in SearchNotesResults(u, skip, limit, search, tag_filter) :
          IF found = << >>
          THEN /\ last' = [op |-> "search_notes", user |-> u, skip |-> skip,
                           limit |-> limit, search |-> search, tags |-> tag_filter,
                           result |-> << >>]
               /\ UNCHANGED req
          ELSE Accept(s, ListRequest("search_notes", u, skip, limit, search,
                                     tag_filter, "usernames", found))
    /\ ReadOnly

\* shared_with = await get_shared_with_usernames(...) for the next note of the list;
\* after the last one the list is returned
get_shared_with_usernames(s) ==
    /\ req[s].op \in {"get_notes", "search_notes"}
    /\ req[s].pc = "usernames"
    /\ IF req[s].left = 1
       THEN Listing(s, req[s].rows)
       ELSE /\ req' = [req EXCEPT ![s].left = @ - 1]
            /\ last' = NoResponse
    /\ ReadOnly

\* a store of ListNotes notes (the first, of user 1, titled t1 and tagged x, the
\* others, all of one user, titled t2) and up to MaxShares share rows, one per
\* pair, as requests run one after the other leave it
ListInit ==
    /\ users = [u \in Users |-> [username |-> u, is_active |-> TRUE]]
    /\ nextUser = NumUsers + 1
    /\ tags = << <<"x">> >>
    /\ nextTag = 2
    /\ \E owner \in Users :
          notes = [n \in 1..ListNotes |->
                     [owner |-> IF n = 1 THEN 1 ELSE owner,
                      title |-> IF n = 1 THEN "t1" ELSE "t2",
                      content |-> Null, tags |-> IF n = 1 THEN {1} ELSE {}]]
    /\ nextNote = ListNotes + 1
    /\ \E j \in 0..MaxShares :
          /\ shares \in {sh \in [1..j -> [note : 1..ListNotes, user : Users,
                                          permission : {"read"}]] :
                            \A a, b \in 1..j :
                                (sh[a].note = sh[b].note /\ sh[a].user = sh[b].user)
                                => a = b}
          /\ nextShare = j + 1
    /\ req = [s \in Slots |-> Idle]
    /\ last = NoResponse
    /\ access = [u \in Users |-> NoToken]
    /\ refresh = [u \in Users |-> NoToken]
    /\ now = 0
    /\ issued = {}

\* a list request taken up by slot s, or one step of it
ListRead(s) ==
    \/ \E u \in Users, skip \in 0..MaxSkip, limit \in 1..MaxLimit,
          search \in SearchTexts, tag_filter \in TagFilters :
             GetNotesOwn(s, u, skip, limit, search, tag_filter)
    \/ GetNotesShared(s)
    \/ \E u \in Users, skip \in 0..MaxSkip, limit \in 1..MaxLimit,
          search \in SearchTexts, tag_filter \in TagFilters :
             search_notes(s, u, skip, limit, search, tag_filter)
    \/ get_shared_with_usernames(s)

\* a request that changes notes or share rows, taken up by slot s, or one step of it
ListWrite(s) ==
    \/ \E u \in Users, n \in 1..ListNotes : DeleteCheckOwner(s, u, n)
    \/ DeleteCascade(s)
    \/ DeleteCommit(s)
    \/ \E u \in Users, n \in 1..ListNotes, t \in Users : UnshareCheckOwner(s, u, n, t)
    \/ UnshareFind(s)
    \/ UnshareCommit(s)
    \/ \E u \in Users, n \in 1..ListNotes, t \in Users :
          ShareCheckOwner(s, u, n, t, "read")
    \/ ShareCheckTarget(s)
    \/ ShareCheckExisting(s)
    \/ ShareCommit(s)

\* list requests do not act on one another: the first slot serves them, one at a
\* time, while the other slots serve the requests that write
ListNext ==
    \/ ListRead(1)
    \/ \E s \in Slots \ {1} : ListWrite(s)

ListSpec == ListInit /\ [][ListNext]_vars

\* =============================================================== claims
tables == <<notes, tags, shares>>

\* u is the owner of note n or holds a share row on it
Accessible(u, n) ==
    n \in DOMAIN notes /\ (notes[n].owner = u \/ ShareRows(n, u) # {})

\* u's only access to note n is a share row, of permission `read`
OnlyReadShare(u, n) ==
    /\ n \in DOMAIN notes
    /\ notes[n].owner # u
    /\ ShareRows(n, u) # {}
    /\ \A i \in ShareRows(n, u) : shares[i].permission = "read"

\* C1: get_note(N) by U answers with the note exactly when U owns N or a share
\* row (N, U) exists, and with not-found in every other case: the owner's query lets
\* the owner through, the share query lets through whoever has a share row and
\* answers not-found otherwise, and a request let through is answered with the note.
C1_GetNoteIffOwnerOrShared ==
    [][\A s \in Slots :
          /\ (IsIdle(s) /\ req'[s].op = "get_note")
             => (req'[s].pc = "usernames" <=> OwnedNote(req'[s].note, req'[s].user))
          /\ (At(s, "get_note", "shared") /\ req'[s] # req[s])
             => IF req[s].note \in DOMAIN notes /\ ShareRows(req[s].note, req[s].user) # {}
                THEN req'[s].op = "get_note" /\ req'[s].pc = "usernames"
                ELSE req'[s].op = "idle" /\ last'.detail = "not_found"
          /\ (At(s, "get_note", "usernames") /\ req'[s] # req[s])
             => last'.detail = "ok"]_vars

\* C2: a step of a delete_note, share_note or unshare_note request changes the
\* tables only if the requesting user is the owner of the note; a share row gives
\* a non-owner none of the three.
C2_OnlyOwnerDeletesAndShares ==
    [][\A s \in Slots :
          (/\ req[s].op \in {"delete_note", "share_note", "unshare_note"}
           /\ req'[s].op = "idle"
           /\ tables' # tables)
          => OwnedNote(req[s].note, req[s].user)]_vars

C2_Witness ==
    /\ last.op \in {"delete_note", "share_note", "unshare_note"}
    /\ last.detail = "not_found"
    /\ OnlyReadShare(last.user, last.note)

\* C3 as stated: update_note and delete_note by a user whose only access is a
\* `read` share both end in 403 and change nothing.
C3_ReadShareForbidden ==
    [][(last'.op \in {"update_note", "delete_note"}
        /\ OnlyReadShare(last'.user, last'.note))
       => (StatusOf(last'.detail) = 403 /\ tables' = tables)]_vars

\* C3 amended: for such a user update_note ends in 403 and delete_note in 404, and
\* both leave the note, the tags and the shares as they were.
C3_ReadShareRejected ==
    [][(last'.op \in {"update_note", "delete_note"}
        /\ OnlyReadShare(last'.user, last'.note))
       => (/\ StatusOf(last'.detail) =
                 IF last'.op = "update_note" THEN 403 ELSE 404
           /\ tables' = tables)]_vars

C3_Witness ==
    /\ last.op = "delete_note"
    /\ StatusOf(last.detail) = 404
    /\ OnlyReadShare(last.user, last.note)

\* C4: with requests served one at a time, every (note, user) pair has at most one
\* share row.
C4_OneRowPerPair ==
    \A n \in NoteIds, u \in UserIds : Cardinality(ShareRows(n, u)) <= 1

C4_Witness ==
    /\ last.op = "share_note"
    /\ last.detail = "already"
    /\ Cardinality(ShareRows(last.note, last.target)) = 1

\* C5 as stated: a share request for a pair that already has a row ends with the
\* row holding the permission level the request named.
C5_ReshareOverwrites ==
    [][\A s \in Slots :
          (/\ req[s].op = "share_note"
           /\ req'[s].op = "idle"
           /\ StatusOf(last'.detail) = 200
           /\ ShareRows(req[s].note, req[s].target) # {})
          => \A i \in DOMAIN shares' :
                (shares'[i].note = req[s].note /\ shares'[i].user = req[s].target)
                => shares'[i].permission = req[s].perm]_vars

\* C5 amended: a share request whose look for an existing row finds one changes no
\* table, whatever level it names, and every share row holds the permission `read`.
C5_ReshareKeepsRow ==
    [][/\ \A i \in DOMAIN shares' : shares'[i].permission = "read"
       /\ \A s \in Slots :
             (/\ At(s, "share_note", "check_existing")
              /\ req'[s].op = "idle"
              /\ ShareRows(req[s].note, req[s].target) # {})
             => tables' = tables]_vars

C5_Witness ==
    /\ last.op = "share_note"
    /\ last.detail = "already"
    /\ last.perm = "write"
    /\ \A i \in ShareRows(last.note, last.target) : shares[i].permission = "read"
    /\ ShareRows(last.note, last.target) # {}

\* C6: a share request that saw no row for its pair inserts one when it commits,
\* whether or not another request has inserted a row for the same pair since: the
\* check and the insert are not serialised.
C6_InsertAfterStaleCheck ==
    [][\A s \in Slots :
          (/\ At(s, "share_note", "commit")
           /\ req'[s].op = "idle"
           /\ req[s].note \in DOMAIN notes)
          => /\ last'.detail = "ok"
             /\ Cardinality({i \in DOMAIN shares' :
                    shares'[i].note = req[s].note /\ shares'[i].user = req[s].target})
                = Cardinality(ShareRows(req[s].note, req[s].target)) + 1]_vars

\* two share requests for one pair have both read "no existing row"; none inserted
C6_Witness ==
    \E s, t \in Slots :
        /\ s # t
        /\ At(s, "share_note", "commit")
        /\ At(t, "share_note", "commit")
        /\ req[s].note = req[t].note
        /\ req[s].target = req[t].target
        /\ ShareRows(req[s].note, req[s].target) = {}

\* C7: a request of update_note, delete_note, share_note or unshare_note that ends
\* in 403 or 404 leaves notes, note-tag links, tags and shares as they were, and no
\* request writes before its commit, which only a request that passed its checks
\* reaches.
C7_RejectedChangesNothing ==
    [][/\ (/\ last'.op \in {"update_note", "delete_note", "share_note", "unshare_note"}
           /\ StatusOf(last'.detail) \in {403, 404})
          => tables' = tables
       /\ tables' # tables
          => \E s \in Slots : /\ ~IsIdle(s)
                               /\ req[s].pc = "commit"
                               /\ req'[s] # req[s]
                               /\ StatusOf(last'.detail) \notin {403, 404}]_vars

C7_Witness ==
    /\ last.op = "update_note"
    /\ last.detail = "forbidden"
    /\ last.note \in DOMAIN notes
    /\ tags = << >>

\* C8: a successful delete_note(N) leaves no note N and no share row of N, so that
\* get_note(N) is not-found for every user, and leaves the tags table as it was.
C8_DeleteCascadesToShares ==
    [][\A s \in Slots :
          (/\ req[s].op = "delete_note"
           /\ req'[s].op = "idle"
           /\ last'.detail = "ok")
          => /\ req[s].note \notin DOMAIN notes'
             /\ \A i \in DOMAIN shares' : shares'[i].note # req[s].note
             /\ \A u \in Users :
                   GetNoteOver(notes', shares', u, req[s].note) = "not_found"
             /\ tags' = tags]_vars

\* a note that had a tag and a share row is deleted: the tag stays, no row does
C8_Witness ==
    /\ last.op = "delete_note"
    /\ last.detail = "ok"
    /\ tags # << >>
    /\ nextShare > 1
    /\ shares = << >>

\* C9: logout deletes the user's access-token entry and then the refresh-token
\* entry; an absent refresh-token entry comes back only by the setex of a login of
\* that user; and while it is absent every refresh request for the user ends 401.
C9_LogoutRevokesRefresh ==
    [][/\ \A s \in Slots :
             (req[s].op = "idle" /\ req'[s].op = "logout")
             => access'[req'[s].user] = NoToken
       /\ \A s \in Slots :
             (req[s].op = "logout" /\ req'[s].op = "idle")
             => refresh'[req[s].user] = NoToken
       /\ \A u \in Users :
             (refresh[u] = NoToken /\ refresh'[u] # NoToken)
             => \E s \in Slots : At(s, "login", "set_refresh") /\ req[s].user = u
                                 /\ req'[s].op = "idle"
       /\ \A s \in Slots :
             (/\ At(s, "refresh_token", "check_cache")
              /\ req'[s].op # "refresh_token" \/ req'[s].pc # "check_cache"
              /\ refresh[req[s].user] = NoToken)
             => (StatusOf(last'.detail) = 401 /\ req'[s].op = "idle")]_vars

\* a refresh token that was issued to the user is turned down after the logout
C9_Witness ==
    /\ last.op = "refresh_token"
    /\ StatusOf(last.detail) = 401
    /\ last.user \in Users
    /\ last.token \in issued
    /\ last.token.typ = "refresh"
    /\ refresh[last.user] = NoToken
    /\ access[last.user] = NoToken

\* C10: the cache check of a refresh request lets it through exactly when the
\* presented token equals the value cached under the user's refresh-token key;
\* otherwise the request ends 401 and changes no cache entry.  Only a request that
\* was let through writes the access-token entry.
C10_RefreshNeedsCachedToken ==
    [][\A s \in Slots :
          (/\ At(s, "refresh_token", "check_cache")
           /\ req'[s].op # "refresh_token" \/ req'[s].pc # "check_cache")
          => IF refresh[req[s].user] = req[s].token
             THEN req'[s].op = "refresh_token" /\ req'[s].pc = "set_access"
             ELSE /\ req'[s].op = "idle"
                  /\ StatusOf(last'.detail) = 401
                  /\ UNCHANGED <<access, refresh>>]_vars

\* an issued refresh token is turned down because a later login replaced it
C10_Witness ==
    /\ last.op = "refresh_token"
    /\ StatusOf(last.detail) = 401
    /\ last.user \in Users
    /\ last.token \in issued
    /\ last.token.typ = "refresh"
    /\ refresh[last.user] # NoToken
    /\ refresh[last.user] # last.token

\* C11: the owner of a note is the user whose create_note request made it, and no
\* step of any request changes the owner of a note that exists.
C11_OwnerNeverChanges ==
    [][/\ \A n \in DOMAIN notes \cap DOMAIN notes' : notes'[n].owner = notes[n].owner
       /\ \A n \in DOMAIN notes' \ DOMAIN notes :
             \E s \in Slots : /\ At(s, "create_note", "commit")
                              /\ req'[s].note = n
                              /\ notes'[n].owner = req[s].user]_vars

\* the owner has rewritten the title of the note and still owns it
C11_Witness ==
    /\ last.op = "update_note"
    /\ last.detail = "ok"
    /\ last.note \in DOMAIN notes
    /\ notes[last.note].title = "t2"
    /\ notes[last.note].owner = last.user

\* C12: no share row of a note names the note's owner as its user: share_note never
\* records a share of a note with its own owner.
C12_NoShareWithOwner ==
    \A i \in DOMAIN shares :
        shares[i].note \in DOMAIN notes => shares[i].user # notes[shares[i].note].owner

\* C13: the list get_or_create_tags returns holds each tag at most once: one entry
\* for each name among the input names that are not empty after trimming, taken
\* without regard to case and surrounding whitespace.
C13_ResultDeduplicated ==
    \A s \in Slots :
        (Resolving(s) /\ req[s].pc = "commit" /\ req[s].op = "update_note")
        => /\ ~HasDuplicate(req[s].tag_objects)
           /\ Len(req[s].tag_objects) =
                 Cardinality(Range(ResolvedNames(req[s].body.tags)))

\* C14: a call of get_or_create_tags leaves the stored tags alone and creates a tag
\* only for a name not stored; for a name that is stored it returns the stored tag
\* and creates nothing, so that a second call with the same names returns the
\* identities the first call returned; the list a call returns holds, in order, the
\* tags of the names it kept.
C14_ResolveIdempotent ==
    [][/\ \A t \in DOMAIN tags : t \in DOMAIN tags' /\ tags'[t] = tags[t]
       /\ \A t \in DOMAIN tags' \ DOMAIN tags : tags'[t] \notin TagNames
       /\ \A s \in Slots :
             (/\ Resolving(s)
              /\ req[s].pc = "select"
              /\ req'[s] # req[s]
              /\ Head(req[s].todo) \in TagNames)
             => /\ req'[s].tag_objects =
                      Append(req[s].tag_objects, TagIdOf(tags, Head(req[s].todo)))
                /\ req'[s].pending = req[s].pending
                /\ nextTag' = nextTag
       /\ \A s \in Slots :
             (/\ req[s].op = "update_note"
              /\ req[s].pc \in {"select", "flush", "wait"}
              /\ req'[s].op = req[s].op
              /\ req'[s].pc = "commit")
             => LET names == ResolvedNames(req[s].body.tags) IN
                /\ Len(req'[s].tag_objects) = Len(names)
                /\ \A i \in 1..Len(names) :
                      \/ /\ req'[s].tag_objects[i] \in DOMAIN tags
                         /\ tags[req'[s].tag_objects[i]] = names[i]
                      \/ \E row \in Range(req'[s].pending) :
                            row.id = req'[s].tag_objects[i] /\ row.name = names[i]]_vars

\* a call that found every one of its tags stored by earlier calls
C14_Witness ==
    \E s \in Slots :
        /\ Resolving(s)
        /\ req[s].pc = "commit"
        /\ req[s].pending = << >>
        /\ Cardinality(Range(req[s].tag_objects)) >= 2
        /\ Range(req[s].tag_objects) \subseteq DOMAIN tags

\* C15: whatever the interleaving of create_note and update_note requests, every
\* stored tag name is non-empty, trimmed and lower case, and no two tags share a name.
C15_TagNamesCanonicalUnique ==
    \A t \in DOMAIN tags :
        /\ NonEmpty(tags[t])
        /\ NormalizeTag(tags[t]) = tags[t]
        /\ \A t2 \in DOMAIN tags : tags[t2] = tags[t] => t2 = t

\* a request is about to insert a tag name it did not find, which another request,
\* resolving the same new name at the same time, has committed meanwhile
C15_Witness ==
    \E s \in Slots :
        /\ Resolving(s)
        /\ req[s].pc = "flush"
        /\ Head(req[s].todo) \in TagNames

\* C16: a register request is turned down, with 400 and no user created, exactly
\* when its username is taken: the look for the username lets a request through
\* only if no user has the name, and turns it down with 400 otherwise; and no two
\* users share a username.
C16_RegisterRejectsTakenName ==
    [][/\ (last'.op = "register" /\ req' = req)
          => /\ UsersNamed(last'.target) # {}
             /\ StatusOf(last'.detail) = 400
             /\ users' = users
       /\ \A s \in Slots :
             (IsIdle(s) /\ req'[s].op = "register")
             => UsersNamed(req'[s].target) = {}
       /\ \A u, v \in DOMAIN users' :
             users'[u].username = users'[v].username => u = v]_vars

\* a username that an earlier register request took is asked for again
C16_Witness ==
    /\ last.op = "register"
    /\ StatusOf(last.detail) = 400
    /\ last.target > NumUsers
    /\ UsersNamed(last.target) # {}
    /\ Cardinality(DOMAIN users) > NumUsers + 1

\* C17: once a logout of a user has completed (neither of the user's cache entries
\* is left), the access-token entry of the user comes back only by the setex of a
\* login of that user, whatever requests were in flight during the logout.
C17_LogoutRevokesAccess ==
    [][\A u \in Users :
          (access[u] = NoToken /\ refresh[u] = NoToken /\ access'[u] # NoToken)
          => \E s \in Slots : At(s, "login", "set_access") /\ req[s].user = u]_vars

\* C18: an unshare request of the owner goes through whenever its pair has at least
\* one share row; and when an unshare request ends successfully, no share row of
\* its pair is left and get_note by the target, unless the target is the owner, is
\* not-found.
C18_UnshareRemovesAccess ==
    [][\A s \in Slots :
          /\ (/\ At(s, "unshare_note", "find")
              /\ req'[s] # req[s]
              /\ ShareRows(req[s].note, req[s].target) # {})
             => (req'[s].op = "unshare_note" /\ req'[s].pc = "commit")
          /\ (/\ req[s].op = "unshare_note"
              /\ req'[s].op = "idle"
              /\ last'.detail = "ok")
             => /\ \A i \in DOMAIN shares' :
                      ~(shares'[i].note = req[s].note /\ shares'[i].user = req[s].target)
                /\ \/ /\ req[s].note \in DOMAIN notes'
                      /\ notes'[req[s].note].owner = req[s].target
                   \/ GetNoteOver(notes', shares', req[s].target, req[s].note)
                         = "not_found"]_vars

\* C19: whatever the interleaving of share, unshare and delete requests, every share
\* row names a note that exists and a user that exists; a share request whose note
\* was deleted after its ownership check leaves no row.
C19_SharesReferToExistingNotes ==
    \A i \in DOMAIN shares :
        /\ shares[i].note \in DOMAIN notes
        /\ shares[i].user \in DOMAIN users

\* a share request passed its checks, the note was deleted meanwhile, and the insert
\* was turned down
C19_Witness ==
    /\ last.op = "share_note"
    /\ last.detail = "error"
    /\ last.note \notin DOMAIN notes
    /\ last.target \in DOMAIN users
    /\ nextNote > last.note

\* C20: get_notes returns no note id twice, only notes its user owns or holds a
\* share row on, and at most `limit` notes; without filters, with skip 0 and fewer
\* than `limit` accessible notes, it returns the set of notes search_notes returns.
C20_GetNotesPaged ==
    last.op = "get_notes" =>
        /\ ~HasDuplicate(last.result)
        /\ \A n \in Range(last.result) : Accessible(last.user, n)
        /\ Len(last.result) <= last.limit
        /\ (/\ last.search = Null
            /\ FilterNames(last.tags) = {}
            /\ last.skip = 0
            /\ Cardinality({n \in DOMAIN notes : Accessible(last.user, n)}) < last.limit)
           => \A found \in SearchNotesResults(last.user, 0, last.limit, Null, last.tags) :
                 Range(found) = Range(last.result)

====
